---- MODULE Spec2Model ----
(***************************************************************************)
(* ABCI middleware of the beacon node (mod/runtime/pkg/middleware/abci.go) *)
(* together with the request parsing of mod/runtime/abci/types/block.go.   *)
(* The consensus engine calls one phase at a time; a phase suspends at     *)
(* every dispatcher request and gossip send and resumes when that call     *)
(* returns.                                                                *)
(***************************************************************************)
EXTENDS Integers, Sequences, FiniteSets, TLC

(* ------------------------------ bounds --------------------------------- *)
MaxBlock == 2
MaxUpdates == 1

(* --------------------------- program constants -------------------------- *)
BeaconBlockTxIndex == 0
BlobSidecarsTxIndex == 1

Blocks == 1..MaxBlock

(* ------------------------------- errors -------------------------------- *)
\* An error value: its name and whether it is wrapped as non-fatal.
Err(n) == [name |-> n, nonFatal |-> FALSE]
NilErr == Err("nil")

WrapNonFatal(err) == [name |-> err.name, nonFatal |-> TRUE]

IsFatal(err) == err # NilErr /\ ~err.nonFatal

ErrInvalidProcessProposalRequestType == Err("ErrInvalidProcessProposalRequestType")
ErrInvalidFinalizeBlockRequestType == Err("ErrInvalidFinalizeBlockRequestType")
ErrNilABCIRequest == Err("ErrNilABCIRequest")
ErrNoBeaconBlockInRequest == Err("ErrNoBeaconBlockInRequest")
ErrBzIndexOutOfBounds == Err("ErrBzIndexOutOfBounds")
ErrNilBeaconBlockInRequest == Err("ErrNilBeaconBlockInRequest")
ErrInvalidSSZ == Err("ErrInvalidSSZ")
ErrDispatcherNoResponder == Err("ErrDispatcherNoResponder")
ErrContextCancelled == Err("ErrContextCancelled")
ErrGossip == Err("ErrGossip")
ErrInvalidJSON == Err("ErrInvalidJSON")

\* Errors a responder can put into its reply, per topic.
ResponderErrors(topic) ==
    CASE topic = "VerifyBeaconBlock" ->
            {Err("ErrRandaoInvalid"), WrapNonFatal(Err("ErrEngineTimeout"))}
      [] topic = "VerifySidecars" ->
            {Err("ErrSidecarInvalid"), WrapNonFatal(Err("ErrEngineTimeout"))}
      [] topic = "ProcessSidecars" ->
            {Err("ErrSidecarInvalid"), WrapNonFatal(Err("ErrEngineTimeout"))}
      [] topic = "FinalizeBeaconBlock" ->
            {Err("ErrStateRootMismatch"), WrapNonFatal(Err("ErrEngineTimeout"))}
      [] topic = "BuildBeaconBlockAndSidecars" ->
            {Err("ErrNilPayload"), Err("ErrNotProposer")}
      [] topic = "ProcessGenesisData" ->
            {Err("ErrDepositIndexGap")}
      [] OTHER -> {Err("ErrInvalidRequestType")}

(* -------------------------- bytes and requests -------------------------- *)
\* A tx slot of a request: a nil entry, the SSZ of block id, the SSZ of the
\* sidecars of block id, or bytes that decode to neither.
NilTx == [tag |-> "nil", id |-> 0]
Junk == [tag |-> "X", id |-> 0]
MarshalBlock(b) == [tag |-> "B", id |-> b]
MarshalSidecars(b) == [tag |-> "S", id |-> b]

TxValues ==
    {NilTx, Junk} \cup {MarshalBlock(b) : b \in Blocks}
                  \cup {MarshalSidecars(b) : b \in Blocks}

\* The middleware reads tx slots 0 and 1 only: requests carry up to
\* BlobSidecarsTxIndex + 1 entries.
TxLists == UNION {[1..n -> TxValues] : n \in 0..(BlobSidecarsTxIndex + 1)}

NilReq == [type |-> "nil", txs |-> <<>>]
Requests ==
    [type : {"ProcessProposalRequest", "FinalizeBlockRequest"}, txs : TxLists]
        \cup {[type |-> "Other", txs |-> <<>>]}

Ok(v) == [val |-> v, err |-> NilErr]
Fail(e) == [val |-> 0, err |-> e]

BeaconBlockFromSSZ(bz) ==
    IF bz.tag = "B" THEN Ok(bz.id) ELSE Fail(ErrInvalidSSZ)

UnmarshalSSZ(bz) ==
    IF bz.tag = "S" THEN Ok(bz.id) ELSE Fail(ErrInvalidSSZ)

\* txs[bzIndex] with the code's 0-based index; Go panics on an index out of
\* range.
OutOfRange == [tag |-> "out of range", id |-> 0]
RuntimePanic == Err("runtime error: index out of range")
TxAt(txs, bzIndex) ==
    IF bzIndex + 1 \in DOMAIN txs THEN txs[bzIndex + 1] ELSE OutOfRange

\* ReadOnlyBeaconBlockFromABCIRequest without the check of the index.
ReadOnlyBeaconBlockFromABCIRequest_NoBound(req, bzIndex) ==
    IF req.type = "nil" THEN Fail(ErrNilABCIRequest)
    ELSE IF Len(req.txs) = 0 THEN Fail(ErrNoBeaconBlockInRequest)
    ELSE IF TxAt(req.txs, bzIndex) = OutOfRange THEN Fail(RuntimePanic)
    ELSE IF TxAt(req.txs, bzIndex) = NilTx THEN Fail(ErrNilBeaconBlockInRequest)
    ELSE BeaconBlockFromSSZ(TxAt(req.txs, bzIndex))

ReadOnlyBeaconBlockFromABCIRequest(req, bzIndex) ==
    IF req.type = "nil" THEN Fail(ErrNilABCIRequest)
    ELSE IF Len(req.txs) = 0 THEN Fail(ErrNoBeaconBlockInRequest)
    ELSE IF bzIndex >= Len(req.txs) THEN Fail(ErrBzIndexOutOfBounds)
    ELSE IF TxAt(req.txs, bzIndex) = OutOfRange THEN Fail(RuntimePanic)
    ELSE IF TxAt(req.txs, bzIndex) = NilTx THEN Fail(ErrNilBeaconBlockInRequest)
    ELSE BeaconBlockFromSSZ(TxAt(req.txs, bzIndex))

GetBlobSideCars(req, bzIndex) ==
    IF req.type = "nil" THEN Fail(ErrNilABCIRequest)
    ELSE IF Len(req.txs) = 0 THEN Fail(ErrNoBeaconBlockInRequest)
    ELSE IF bzIndex >= Len(req.txs) THEN Fail(ErrBzIndexOutOfBounds)
    ELSE IF TxAt(req.txs, bzIndex) = OutOfRange THEN Fail(RuntimePanic)
    ELSE IF TxAt(req.txs, bzIndex) = NilTx THEN Fail(ErrNilBeaconBlockInRequest)
    ELSE UnmarshalSSZ(TxAt(req.txs, bzIndex))

\* The gossipers' Request: decode the block / the sidecars of a proposal.
BeaconBlockGossiperRequest(abciReq) ==
    ReadOnlyBeaconBlockFromABCIRequest(abciReq, BeaconBlockTxIndex)

BlobGossiperRequest(abciReq) ==
    GetBlobSideCars(abciReq, BlobSidecarsTxIndex)

\* encoding.ExtractBlobsAndBlockFromRequest: the block first, then the blobs.
ExtractBlobsAndBlockFromRequest(req, blkIndex, blobsIndex) ==
    LET b == ReadOnlyBeaconBlockFromABCIRequest(req, blkIndex)
        s == GetBlobSideCars(req, blobsIndex)
    IN IF b.err # NilErr THEN [blk |-> 0, blobs |-> 0, err |-> b.err]
       ELSE IF s.err # NilErr THEN [blk |-> b.val, blobs |-> 0, err |-> s.err]
       ELSE [blk |-> b.val, blobs |-> s.val, err |-> NilErr]

(* ------------------------------ dispatcher ------------------------------ *)
\* A reply envelope (*asynctypes.Message); NilEnv is the nil pointer.
NilEnv == [present |-> FALSE, data |-> 0, err |-> NilErr]
Env(d, e) == [present |-> TRUE, data |-> d, err |-> e]

\* The errors dispatcher.Request itself can return.
RequestErrors == {ErrDispatcherNoResponder, ErrContextCancelled}

\* What dispatcher.Request(msg, &resp) can do: fill resp with the
\* responder's reply and return nil, or return an error and leave resp nil.
DispatcherOutcomes(topic, okData) ==
    {[err |-> NilErr, env |-> Env(d, NilErr)] : d \in okData}
      \cup {[err |-> NilErr, env |-> Env(d, e)] :
                d \in {0} \cup okData, e \in ResponderErrors(topic)}
      \cup {[err |-> e, env |-> NilEnv] : e \in RequestErrors}

\* What a gossiper's Publish can return: the marshalled bytes or an error.
PublishOutcomes(bz) == {[bz |-> bz, err |-> NilErr], [bz |-> NilTx, err |-> ErrGossip]}

(* -------------------------------- state --------------------------------- *)
(***************************************************************************)
(* Beacon state, slot processing, block builder and post-block forkchoice  *)
(* updates (package validator and package blockchain).                     *)
(***************************************************************************)

\* Highest slot the chain is driven to.
MaxSlot == 3

\* math.Slot is a uint64; the model keeps the wrap-around at a small modulus.
SlotModulus == 8
Slots == 0..(SlotModulus - 1)
AddSlot(a, b) == (a + b) % SlotModulus
SubSlot(a, b) == (a + SlotModulus - b) % SlotModulus

\* chainSpec.SlotsPerHistoricalRoot(): the length of the block_roots ring.
SlotsPerHistoricalRoot == 4

\* chainSpec.ActiveForkVersionForSlot(slot): one fork, active from ForkSlot on.
ForkSlot == 2
ActiveForkVersionForSlot(slot) == IF slot >= ForkSlot THEN 2 ELSE 1

graffitiSize == 32

ZeroRoot == 0
ZeroHash == 0
\* The root of the header of the block of slot s (0: the genesis header).
\* A block and its header have the same root.
HeaderRoot(s) == s + 1
\* The block hash of execution payload no. n (0: the genesis payload).
PayloadHash(n) == 100 + n

ErrStateRead == Err("ErrStateRead")
ErrProcessSlot == Err("ErrProcessSlot")
ErrEmptyBlock == Err("ErrForkVersionNotSupported")
ErrBuilder == Err("ErrPayloadBuild")
ErrNilPayload == Err("ErrNilPayload")
ErrNotProposer == Err("ErrValidatorNotFound")
StateReadErrors == {NilErr, ErrStateRead}

\* errors.Newf(msg + ": %w", cause)
Newf(msg, cause) == [name |-> msg, nonFatal |-> FALSE]

Pubkeys == {"pkA", "pkB", "pkC"}
\* The validator set of the chain, in registry order.
GenesisValidators == <<"pkA", "pkB">>

GenesisState ==
    [slot |-> 0,
     latestBlockHeader |-> 0,
     blockRoots |-> [i \in 0..(SlotsPerHistoricalRoot - 1) |-> ZeroRoot],
     lph |-> [blockHash |-> PayloadHash(0), parentHash |-> ZeroHash],
     validators |-> GenesisValidators]

\* No state (nil): no copy has been taken.
NilState ==
    [slot |-> 0, latestBlockHeader |-> 0, blockRoots |-> <<>>,
     lph |-> [blockHash |-> ZeroHash, parentHash |-> ZeroHash],
     validators |-> <<>>]

\* st.Copy()
Copy(s) == s

\* state processor, one slot: the root of the latest block header is cached
\* in the ring entry of the state's slot, then the slot is incremented.
ProcessSlot(s) ==
    [s EXCEPT !.blockRoots[s.slot % SlotsPerHistoricalRoot] =
                  HeaderRoot(s.latestBlockHeader),
              !.slot = AddSlot(s.slot, 1)]

\* state processor: one ProcessSlot per slot until the state is at target.
RECURSIVE ProcessSlots(_, _)
ProcessSlots(s, target) ==
    IF s.slot >= target THEN s ELSE ProcessSlots(ProcessSlot(s), target)

\* state processor, block processing of the block of slot b.slot: the block
\* becomes the latest header, its payload the latest payload header.
ProcessBlock(s, b) ==
    [s EXCEPT !.latestBlockHeader = b.slot,
              !.lph = [blockHash |-> PayloadHash(b.slot),
                       parentHash |-> s.lph.blockHash]]

\* st.ValidatorIndexByPubkey
ValidatorIndexByPubkey(s, pk) ==
    IF \E i \in 1..Len(s.validators) : s.validators[i] = pk
    THEN Ok((CHOOSE i \in 1..Len(s.validators) : s.validators[i] = pk) - 1)
    ELSE Fail(ErrNotProposer)

\* A moniker of n bytes, and the monikers the node may be configured with.
Moniker(n) == [i \in 1..n |-> (i % 7) + 1]
Monikers == {Moniker(0), Moniker(1), Moniker(graffitiSize), Moniker(graffitiSize + 1)}

EmptyGraffiti == [i \in 1..graffitiSize |-> 0]
IsGraffitiEmpty(g) == g = EmptyGraffiti

\* The graffiti a block body may carry when types.EmptyBeaconBlock hands it
\* out: none, or one already set.
PresetGraffiti == [i \in 1..graffitiSize |-> IF i = 1 THEN 9 ELSE 0]
BodyGraffiti == {EmptyGraffiti, PresetGraffiti}

\* stringToByteArray32 keeping the last graffitiSize bytes of a long string.
stringToByteArray32_Tail(str) ==
    LET skip == IF Len(str) > graffitiSize THEN Len(str) - graffitiSize ELSE 0
    IN  [i \in 1..graffitiSize |-> IF i <= Len(str) THEN str[i + skip] ELSE 0]

\* The string's bytes truncated to graffitiSize, zero-padded on the right.
stringToByteArray32(str) ==
    [i \in 1..graffitiSize |-> IF i <= Len(str) THEN str[i] ELSE 0]

\* No block (nil): it has no body, hence no graffiti bytes.
NoBlock == [slot |-> 0, proposerIndex |-> 0, parentRoot |-> ZeroRoot,
            forkVersion |-> 0, graffiti |-> <<>>]

\* types.EmptyBeaconBlock: a block with a fresh body, whose graffiti is
\* body, or the error of an unsupported fork version.
EmptyBeaconBlock(slot, proposerIndex, parentBlockRoot, forkVersion, body, emptyErr) ==
    IF emptyErr # NilErr THEN Fail(emptyErr)
    ELSE Ok([slot |-> slot, proposerIndex |-> proposerIndex,
             parentRoot |-> parentBlockRoot, forkVersion |-> forkVersion,
             graffiti |-> body])

BuildResult(b, e) == [blk |-> b, err |-> e]

\* GetEmptyBeaconBlock not looking at the outcome of the proposer lookup.
GetEmptyBeaconBlock_AnyProposer(s, slot, signer, moniker, rootErr, body, emptyErr) ==
    LET parentBlockRoot == s.blockRoots[slot % SlotsPerHistoricalRoot]
        proposer == ValidatorIndexByPubkey(s, signer)
        block == EmptyBeaconBlock(slot, proposer.val, parentBlockRoot,
                                  ActiveForkVersionForSlot(slot), body, emptyErr)
    IN  IF rootErr # NilErr
        THEN BuildResult(NoBlock, Newf("failed to get block root at index", rootErr))
        ELSE IF block.err # NilErr
        THEN BuildResult(NoBlock, block.err)
        ELSE IF IsGraffitiEmpty(block.val.graffiti)
        THEN BuildResult([block.val EXCEPT !.graffiti = stringToByteArray32(moniker)],
                         NilErr)
        ELSE BuildResult(block.val, NilErr)

\* GetEmptyBeaconBlock(st, slot). rootErr is the outcome of the state's
\* block-root read, body and emptyErr those of types.EmptyBeaconBlock.
GetEmptyBeaconBlock(s, slot, signer, moniker, rootErr, body, emptyErr) ==
    LET parentBlockRoot == s.blockRoots[slot % SlotsPerHistoricalRoot]
        proposer == ValidatorIndexByPubkey(s, signer)
        block == EmptyBeaconBlock(slot, proposer.val, parentBlockRoot,
                                  ActiveForkVersionForSlot(slot), body, emptyErr)
    IN  IF rootErr # NilErr
        THEN BuildResult(NoBlock, Newf("failed to get block root at index", rootErr))
        ELSE IF proposer.err # NilErr
        THEN BuildResult(NoBlock, Newf("failed to get validator by pubkey", proposer.err))
        ELSE IF block.err # NilErr
        THEN BuildResult(NoBlock, block.err)
        ELSE IF IsGraffitiEmpty(block.val.graffiti)
        THEN BuildResult([block.val EXCEPT !.graffiti = stringToByteArray32(moniker)],
                         NilErr)
        ELSE BuildResult(block.val, NilErr)

\* The key the local builder files a payload build under.
NoKey == [slot |-> 0, parentRoot |-> ZeroRoot, headHash |-> ZeroHash]
PayloadKey(slot, parentRoot, headHash) ==
    [slot |-> slot, parentRoot |-> parentRoot, headHash |-> headHash]

\* What localBuilder.RetrieveOrBuildPayload may answer: (envelope, error),
\* envelope 0 being nil.
BuilderOutcomes ==
    {[env |-> 1, err |-> NilErr], [env |-> 0, err |-> NilErr],
     [env |-> 0, err |-> ErrBuilder], [env |-> 1, err |-> ErrBuilder]}

PayloadResult(env, e, called, key) ==
    [env |-> env, err |-> e, called |-> called, key |-> key]

\* RetrievePayload passing a nil envelope on.
RetrievePayload_NoNilCheck(s, b, lphErr, out) ==
    LET key == PayloadKey(b.slot, b.parentRoot, s.lph.blockHash)
    IN  IF lphErr # NilErr THEN PayloadResult(0, lphErr, FALSE, NoKey)
        ELSE IF out.err # NilErr THEN PayloadResult(0, out.err, TRUE, key)
        ELSE PayloadResult(out.env, NilErr, TRUE, key)

\* RetrievePayload(ctx, st, blk). lphErr is the outcome of the state's
\* latest-payload-header read, out the builder's answer.
RetrievePayload(s, b, lphErr, out) ==
    LET key == PayloadKey(b.slot, b.parentRoot, s.lph.blockHash)
    IN  IF lphErr # NilErr THEN PayloadResult(0, lphErr, FALSE, NoKey)
        ELSE IF out.err # NilErr THEN PayloadResult(0, out.err, TRUE, key)
        ELSE IF out.env = 0 THEN PayloadResult(0, ErrNilPayload, TRUE, key)
        ELSE PayloadResult(out.env, NilErr, TRUE, key)

PrepareResult(s, e, n) == [st |-> s, err |-> e, processed |-> n]

\* prepareStateForBuilding catching up a state that is several slots behind.
prepareStateForBuilding_CatchUp(s, requestedSlot, slotErr, psErr) ==
    LET slotDifference == SubSlot(requestedSlot, s.slot)
    IN  IF slotErr # NilErr THEN PrepareResult(s, slotErr, 0)
        ELSE IF slotDifference = 0
        THEN PrepareResult(s, Err("requested slot is in the past"), 0)
        ELSE IF psErr # NilErr THEN PrepareResult(s, psErr, 1)
        ELSE PrepareResult(ProcessSlots(s, requestedSlot), NilErr,
                           slotDifference)

\* prepareStateForBuilding taking a state not one slot behind as prepared.
prepareStateForBuilding_AtSlot(s, requestedSlot, slotErr, psErr) ==
    LET slotDifference == SubSlot(requestedSlot, s.slot)
    IN  IF slotErr # NilErr THEN PrepareResult(s, slotErr, 0)
        ELSE IF slotDifference = 1
        THEN IF psErr # NilErr THEN PrepareResult(s, psErr, 1)
             ELSE PrepareResult(ProcessSlot(s), NilErr, 1)
        ELSE IF slotDifference > 1
        THEN PrepareResult(s, Err("requested slot is too far ahead"), 0)
        ELSE PrepareResult(s, NilErr, 0)

\* prepareStateForBuilding(st, requestedSlot). slotErr is the outcome of
\* st.GetSlot() on entry, psErr that of stateProcessor.ProcessSlot; processed
\* counts the ProcessSlot calls made. The read of the slot after ProcessSlot
\* succeeds: ProcessSlot has just read and written that field.
prepareStateForBuilding(s, requestedSlot, slotErr, psErr) ==
    LET slotDifference == SubSlot(requestedSlot, s.slot)
    IN  IF slotErr # NilErr THEN PrepareResult(s, slotErr, 0)
        ELSE IF slotDifference = 1
        THEN IF psErr # NilErr THEN PrepareResult(s, psErr, 1)
             ELSE IF requestedSlot # ProcessSlot(s).slot
             THEN PrepareResult(ProcessSlot(s),
                                Err("requested slot could not be processed"), 1)
             ELSE PrepareResult(ProcessSlot(s), NilErr, 1)
        ELSE IF slotDifference > 1
        THEN PrepareResult(s, Err("requested slot is too far ahead"), 0)
        ELSE PrepareResult(s, Err("requested slot is in the past"), 0)

\* Calls on the execution engine / local builder made by a forkchoice update.
RequestPayloadAsync(s, slot, prevBlockRoot, headHash, finalHash) ==
    [call |-> "RequestPayloadAsync", stSlot |-> s.slot, slot |-> slot,
     parentRoot |-> prevBlockRoot, head |-> headHash, safe |-> ZeroHash,
     finalized |-> finalHash, forkVersion |-> 0]

NotifyForkchoiceUpdate(head, safe, finalized, forkVersion) ==
    [call |-> "NotifyForkchoiceUpdate", stSlot |-> 0, slot |-> 0,
     parentRoot |-> ZeroRoot,
     head |-> head, safe |-> safe, finalized |-> finalized,
     forkVersion |-> forkVersion]

\* What a forkchoice update leaves behind: the caller's state after the call
\* and the engine calls made, in order.
FCUResult(s, calls) == [st |-> s, calls |-> calls]

\* sendNextFCUWithAttributes going on after a failed ProcessSlots.
sendNextFCUWithAttributes_ErrIgnored(s, b, lph, psErr) ==
    LET stCopy == Copy(s)
        advanced == IF psErr # NilErr THEN stCopy
                    ELSE ProcessSlots(stCopy, AddSlot(b.slot, 1))
        prevBlockRoot == HeaderRoot(b.slot)
    IN  FCUResult(s, <<RequestPayloadAsync(advanced, AddSlot(b.slot, 1),
                                           prevBlockRoot, lph.blockHash,
                                           lph.parentHash)>>)

\* sendNextFCUWithAttributes working on the caller's state itself.
sendNextFCUWithAttributes_InPlace(s, b, lph, psErr) ==
    LET advanced == ProcessSlots(s, AddSlot(b.slot, 1))
        prevBlockRoot == HeaderRoot(b.slot)
    IN  IF psErr # NilErr THEN FCUResult(s, <<>>)
        ELSE FCUResult(advanced, <<RequestPayloadAsync(advanced, AddSlot(b.slot, 1),
                                                       prevBlockRoot, lph.blockHash,
                                                       lph.parentHash)>>)

\* sendNextFCUWithAttributes(ctx, st, blk, lph). psErr is the outcome of
\* ProcessSlots on the copy. The call's error is only logged.
sendNextFCUWithAttributes(s, b, lph, psErr) ==
    LET stCopy == Copy(s)
        advanced == ProcessSlots(stCopy, AddSlot(b.slot, 1))
        prevBlockRoot == HeaderRoot(b.slot)
    IN  IF psErr # NilErr THEN FCUResult(s, <<>>)
        ELSE FCUResult(s, <<RequestPayloadAsync(advanced, AddSlot(b.slot, 1),
                                                prevBlockRoot, lph.blockHash,
                                                lph.parentHash)>>)

\* sendNextFCUWithoutAttributes naming the parent payload as head.
sendNextFCUWithoutAttributes_ParentIsHead(s, b, lph) ==
    FCUResult(s, <<NotifyForkchoiceUpdate(lph.parentHash, lph.parentHash,
                                          lph.parentHash,
                                          ActiveForkVersionForSlot(b.slot))>>)

\* sendNextFCUWithoutAttributes naming the head as safe block.
sendNextFCUWithoutAttributes_SafeIsHead(s, b, lph) ==
    FCUResult(s, <<NotifyForkchoiceUpdate(lph.blockHash, lph.blockHash,
                                          lph.parentHash,
                                          ActiveForkVersionForSlot(b.slot))>>)

\* sendNextFCUWithoutAttributes(ctx, blk, lph). The call's error is only
\* logged.
sendNextFCUWithoutAttributes(s, b, lph) ==
    FCUResult(s, <<NotifyForkchoiceUpdate(lph.blockHash, lph.parentHash,
                                          lph.parentHash,
                                          ActiveForkVersionForSlot(b.slot))>>)

\* sendPostBlockFCU sending the update without attributes after the build
\* request.
sendPostBlockFCU_Both(s, b, optimistic, enabled, lphErr, psErr) ==
    IF lphErr # NilErr THEN FCUResult(s, <<>>)
    ELSE IF ~optimistic /\ enabled
    THEN FCUResult(s, sendNextFCUWithAttributes(s, b, s.lph, psErr).calls
                      \o sendNextFCUWithoutAttributes(s, b, s.lph).calls)
    ELSE sendNextFCUWithoutAttributes(s, b, s.lph)

\* sendPostBlockFCU(ctx, st, blk). lphErr is the outcome of the state's
\* latest-payload-header read.
sendPostBlockFCU(s, b, optimistic, enabled, lphErr, psErr) ==
    IF lphErr # NilErr THEN FCUResult(s, <<>>)
    ELSE IF ~optimistic /\ enabled
    THEN sendNextFCUWithAttributes(s, b, s.lph, psErr)
    ELSE sendNextFCUWithoutAttributes(s, b, s.lph)

VARIABLES
    pc,                  \* where the running phase call is suspended
    h_req,               \* h.req: the stored FinalizeBlockRequest
    abciReq,             \* the request of the running ProcessProposal
    blk,                 \* local blk of the running/last call
    blobs,               \* local sidecars / blobs of the running/last call
    err,                 \* local err: the error of the last decoding
    reqErr,              \* what the last dispatcher.Request call returned
    beaconBlockResp,     \* reply envelopes of the running/last call
    sidecarsResp,
    valUpdatesResp,      \* (valUpdateResp in InitGenesis)
    beaconBlkBundleResp,
    bbBz,                \* bytes returned by the block gossiper's Publish
    ret,                 \* what the last finished call returned
    inflight,            \* topics with a dispatcher request awaiting a reply
    issued,              \* dispatcher requests and gossiper Publish calls
                         \* made by the running/last call, in order
    verified,            \* blocks VerifyBeaconBlock answered without error
    handed,              \* the call handed sidecars to ProcessSidecars, and
                         \* whether their block was verified by then
    served,              \* h.req was already run through an EndBlock
    stale,               \* the running/last EndBlock used a served request
    cfg,                 \* node configuration: optimistic builds, local
                         \* builder enabled, signer public key, moniker
    st,                  \* the beacon state of the chain head
    engine,              \* engine calls of the last sendPostBlockFCU
    fcuIn,               \* the read/processing outcomes that call met
    prevHead,            \* head of the previous FCU without attributes
    requested,           \* key of the last payload build requested
    bst,                 \* the state copy the builder works on
    bres,                \* the builder's last operation and its result
    app                  \* the last library function applied on its own:
                         \* its name, its arguments and what it returned

vars == <<pc, h_req, abciReq, blk, blobs, err, reqErr, beaconBlockResp, sidecarsResp,
          valUpdatesResp, beaconBlkBundleResp, bbBz, ret, inflight, issued,
          verified, handed, served, stale,
          cfg, st, engine, fcuIn, prevHead, requested, bst, bres, app>>

\* The variables of the middleware handler, and those of the chain services.
mvars == <<pc, h_req, abciReq, blk, blobs, err, reqErr, beaconBlockResp,
           sidecarsResp, valUpdatesResp, beaconBlkBundleResp, bbBz, ret, inflight,
           issued, verified, handed, served, stale>>
bvars == <<cfg, st, engine, fcuIn, prevHead, requested, bst, bres, app>>

NoRet == [phase |-> "none", outcome |-> "none", status |-> "none",
          err |-> NilErr, updates |-> 0, blkBz |-> NilTx, scBz |-> NilTx]

\* A call that returned (outcome "return") or panicked (outcome "panic").
Return(phase, status, e, updates, b, s) ==
    [phase |-> phase, outcome |-> "return", status |-> status, err |-> e,
     updates |-> updates, blkBz |-> b, scBz |-> s]

Panic(phase) ==
    [phase |-> phase, outcome |-> "panic", status |-> "none", err |-> NilErr,
     updates |-> 0, blkBz |-> NilTx, scBz |-> NilTx]

MiddlewareInit ==
    /\ pc = "idle"
    /\ h_req = NilReq
    /\ abciReq = NilReq
    /\ blk = 0
    /\ blobs = 0
    /\ err = NilErr
    /\ reqErr = NilErr
    /\ beaconBlockResp = NilEnv
    /\ sidecarsResp = NilEnv
    /\ valUpdatesResp = NilEnv
    /\ beaconBlkBundleResp = NilEnv
    /\ bbBz = NilTx
    /\ ret = NoRet
    /\ inflight = {}
    /\ issued = <<>>
    /\ verified = {}
    /\ handed = "none"
    /\ served = FALSE
    /\ stale = FALSE

Configs ==
    [optimistic : BOOLEAN, enabled : BOOLEAN, signer : Pubkeys, moniker : Monikers]

\* No sendPostBlockFCU call was made yet.
NoFcuIn == [done |-> FALSE]

\* The builder has not run an operation on the head state yet.
NoRes == [op |-> "none"]

\* The record of a builder operation, before its results are filled in.
Result(op) ==
    [op |-> op, err |-> NilErr, blk |-> NoBlock, slot |-> 0, entrySlot |-> 0,
     processed |-> 0, env |-> 0, called |-> FALSE, key |-> NoKey,
     readErr |-> NilErr, callErr |-> NilErr, callEnv |-> 0, body |-> <<>>]

\* No function was applied yet.
NoApp == [fn |-> "none"]

ServicesInit(c) ==
    /\ cfg = c
    /\ st = GenesisState
    /\ engine = <<>>
    /\ fcuIn = NoFcuIn
    /\ prevHead = ZeroHash
    /\ requested = NoKey
    /\ bst = NilState
    /\ bres = NoRes
    /\ app = NoApp

Init ==
    /\ MiddlewareInit
    /\ ServicesInit([optimistic |-> FALSE, enabled |-> TRUE, signer |-> "pkA",
                     moniker |-> Moniker(1)])

\* Entering a phase call: the reply envelopes are nil pointers.
FreshEnvelopes ==
    /\ reqErr' = NilErr
    /\ beaconBlockResp' = NilEnv
    /\ sidecarsResp' = NilEnv
    /\ valUpdatesResp' = NilEnv
    /\ beaconBlkBundleResp' = NilEnv
    /\ bbBz' = NilTx

(* ----------------------------- InitGenesis ------------------------------ *)
\* The app state bytes handed to InitGenesis: the JSON of a genesis, or
\* bytes json.Unmarshal rejects.
MarshalGenesis(g) == [tag |-> "G", id |-> g]
GenesisBytes == {MarshalGenesis(1), Junk}

JsonUnmarshal(bz) ==
    IF bz.tag = "G" THEN Ok(bz.id) ELSE Fail(ErrInvalidJSON)

\* InitGenesis reading its reply the way ProcessProposal and EndBlock do.
InitGenesisResult_Unchecked(out) ==
    IF ~out.env.present THEN Panic("InitGenesis")
    ELSE Return("InitGenesis", "nil", out.env.err, out.env.data, NilTx, NilTx)

\* Lines 60-68: the Request error is checked before the reply is read.
InitGenesisResult(out) ==
    IF out.err # NilErr
    THEN Return("InitGenesis", "nil", out.err, 0, NilTx, NilTx)
    ELSE Return("InitGenesis", "nil", out.env.err, out.env.data, NilTx, NilTx)

\* Lines 53-63: decode the genesis, request ProcessGenesisData.
InitGenesis_Start(bz) ==
    /\ pc = "idle"
    /\ UNCHANGED bvars
    /\ FreshEnvelopes
    /\ abciReq' = NilReq
    /\ blk' = 0
    /\ blobs' = 0
    /\ handed' = "none"
    /\ UNCHANGED <<h_req, verified, served, stale>>
    /\ LET data == JsonUnmarshal(bz) IN
       /\ err' = data.err
       /\ IF data.err # NilErr
          THEN /\ ret' = Return("InitGenesis", "nil", data.err, 0, NilTx, NilTx)
               /\ pc' = "idle"
               /\ issued' = <<>>
               /\ UNCHANGED inflight
          ELSE /\ inflight' = inflight \cup {"ProcessGenesisData"}
               /\ issued' = <<"ProcessGenesisData">>
               /\ pc' = "ig_req"
               /\ ret' = NoRet

\* Lines 60-68: the Request returns.
InitGenesis_Resp ==
    /\ pc = "ig_req"
    /\ UNCHANGED bvars
    /\ \E out \in DispatcherOutcomes("ProcessGenesisData", 1..MaxUpdates) :
        /\ valUpdatesResp' = out.env
        /\ reqErr' = out.err
        /\ inflight' = inflight \ {"ProcessGenesisData"}
        /\ pc' = "idle"
        /\ ret' = InitGenesisResult(out)
        /\ UNCHANGED <<h_req, abciReq, blk, blobs, err, beaconBlockResp,
                       sidecarsResp, beaconBlkBundleResp, bbBz, issued,
                       verified, handed, served, stale>>

(* --------------------------- ProcessProposal ---------------------------- *)
\* createProcessProposalResponse returning the error it accepted under.
createProcessProposalResponse_KeepErr(e) ==
    IF ~IsFatal(e)
    THEN Return("ProcessProposal", "ACCEPT", e, 0, NilTx, NilTx)
    ELSE Return("ProcessProposal", "REJECT", e, 0, NilTx, NilTx)

\* Lines 190-199.
createProcessProposalResponse(e) ==
    IF ~IsFatal(e)
    THEN Return("ProcessProposal", "ACCEPT", NilErr, 0, NilTx, NilTx)
    ELSE Return("ProcessProposal", "REJECT", e, 0, NilTx, NilTx)

\* ProcessProposal as its doc comment describes it ("handles both the beacon
\* block and blob sidecars concurrently"): both requests issued at once.
ProcessProposal_Start_Concurrent(req) ==
    /\ pc = "idle"
    /\ UNCHANGED bvars
    /\ FreshEnvelopes
    /\ handed' = "none"
    /\ UNCHANGED <<h_req, verified, served, stale>>
    /\ LET r == BeaconBlockGossiperRequest(req)
           c == BlobGossiperRequest(req) IN
       /\ blk' = r.val
       /\ blobs' = c.val
       /\ err' = r.err
       /\ IF req.type # "ProcessProposalRequest" \/ r.err # NilErr
          THEN /\ ret' = createProcessProposalResponse(WrapNonFatal(r.err))
               /\ pc' = "idle"
               /\ abciReq' = NilReq
               /\ issued' = <<>>
               /\ UNCHANGED inflight
          ELSE /\ abciReq' = req
               /\ inflight' = inflight \cup {"VerifyBeaconBlock", "VerifySidecars"}
               /\ issued' = <<"VerifyBeaconBlock", "VerifySidecars">>
               /\ pc' = "pp_blk"
               /\ ret' = NoRet

\* ProcessProposal taking any message for a ProcessProposalRequest.
ProcessProposal_Start_Untyped(req) ==
    /\ pc = "idle"
    /\ UNCHANGED bvars
    /\ FreshEnvelopes
    /\ blobs' = 0
    /\ handed' = "none"
    /\ UNCHANGED <<h_req, verified, served, stale>>
    /\ LET r == BeaconBlockGossiperRequest(req) IN
       /\ blk' = r.val
       /\ err' = r.err
       /\ IF r.err # NilErr
          THEN /\ ret' = createProcessProposalResponse(WrapNonFatal(r.err))
               /\ pc' = "idle"
               /\ abciReq' = NilReq
               /\ issued' = <<>>
               /\ UNCHANGED inflight
          ELSE /\ abciReq' = req
               /\ inflight' = inflight \cup {"VerifyBeaconBlock"}
               /\ issued' = <<"VerifyBeaconBlock">>
               /\ pc' = "pp_blk"
               /\ ret' = NoRet

\* Lines 146-163: type check, decode the block, request its verification.
ProcessProposal_Start(req) ==
    /\ pc = "idle"
    /\ UNCHANGED bvars
    /\ FreshEnvelopes
    /\ blobs' = 0
    /\ handed' = "none"
    /\ UNCHANGED <<h_req, verified, served, stale>>
    /\ IF req.type # "ProcessProposalRequest"
       THEN /\ ret' = Return("ProcessProposal", "nil",
                             ErrInvalidProcessProposalRequestType, 0, NilTx, NilTx)
            /\ pc' = "idle"
            /\ abciReq' = NilReq
            /\ blk' = 0
            /\ err' = NilErr
            /\ issued' = <<>>
            /\ UNCHANGED inflight
       ELSE LET r == BeaconBlockGossiperRequest(req) IN
            /\ blk' = r.val
            /\ err' = r.err
            /\ IF r.err # NilErr
               THEN /\ ret' = createProcessProposalResponse(WrapNonFatal(r.err))
                    /\ pc' = "idle"
                    /\ abciReq' = NilReq
                    /\ issued' = <<>>
                    /\ UNCHANGED inflight
               ELSE /\ abciReq' = req
                    /\ inflight' = inflight \cup {"VerifyBeaconBlock"}
                    /\ issued' = <<"VerifyBeaconBlock">>
                    /\ pc' = "pp_blk"
                    /\ ret' = NoRet

\* ProcessProposal going on to the sidecars after a non-fatal block error.
ProcessProposal_BlockResp_FatalOnly ==
    /\ pc = "pp_blk"
    /\ UNCHANGED bvars
    /\ \E out \in DispatcherOutcomes("VerifyBeaconBlock", {blk}) :
        /\ beaconBlockResp' = out.env
        /\ reqErr' = out.err
        /\ UNCHANGED <<h_req, blk, sidecarsResp, valUpdatesResp,
                       beaconBlkBundleResp, bbBz, handed, served, stale>>
        /\ IF ~out.env.present
           THEN /\ ret' = Panic("ProcessProposal")
                /\ pc' = "idle"
                /\ abciReq' = NilReq
                /\ inflight' = inflight \ {"VerifyBeaconBlock"}
                /\ UNCHANGED <<blobs, err, issued, verified>>
           ELSE IF IsFatal(out.env.err)
           THEN /\ ret' = createProcessProposalResponse(out.env.err)
                /\ pc' = "idle"
                /\ abciReq' = NilReq
                /\ inflight' = inflight \ {"VerifyBeaconBlock"}
                /\ UNCHANGED <<blobs, err, issued, verified>>
           ELSE LET r == BlobGossiperRequest(abciReq) IN
                /\ verified' = verified \cup {blk}
                /\ blobs' = r.val
                /\ err' = r.err
                /\ IF r.err # NilErr
                   THEN /\ ret' = createProcessProposalResponse(WrapNonFatal(r.err))
                        /\ pc' = "idle"
                        /\ abciReq' = NilReq
                        /\ inflight' = inflight \ {"VerifyBeaconBlock"}
                        /\ UNCHANGED issued
                   ELSE /\ inflight' = (inflight \ {"VerifyBeaconBlock"})
                                          \cup {"VerifySidecars"}
                        /\ issued' = Append(issued, "VerifySidecars")
                        /\ pc' = "pp_sc"
                        /\ ret' = NoRet
                        /\ UNCHANGED abciReq

\* Lines 158-179: the reply to VerifyBeaconBlock arrives (or the Request
\* fails: its returned error is discarded and the envelope stays nil).
ProcessProposal_BlockResp ==
    /\ pc = "pp_blk"
    /\ UNCHANGED bvars
    /\ \E out \in DispatcherOutcomes("VerifyBeaconBlock", {blk}) :
        /\ beaconBlockResp' = out.env
        /\ reqErr' = out.err
        /\ UNCHANGED <<h_req, blk, sidecarsResp, valUpdatesResp,
                       beaconBlkBundleResp, bbBz, handed, served, stale>>
        /\ IF ~out.env.present
           THEN /\ ret' = Panic("ProcessProposal")
                /\ pc' = "idle"
                /\ abciReq' = NilReq
                /\ inflight' = inflight \ {"VerifyBeaconBlock"}
                /\ UNCHANGED <<blobs, err, issued, verified>>
           ELSE IF out.env.err # NilErr
           THEN /\ ret' = createProcessProposalResponse(out.env.err)
                /\ pc' = "idle"
                /\ abciReq' = NilReq
                /\ inflight' = inflight \ {"VerifyBeaconBlock"}
                /\ UNCHANGED <<blobs, err, issued, verified>>
           ELSE LET r == BlobGossiperRequest(abciReq) IN
                /\ verified' = verified \cup {blk}
                /\ blobs' = r.val
                /\ err' = r.err
                /\ IF r.err # NilErr
                   THEN /\ ret' = createProcessProposalResponse(WrapNonFatal(r.err))
                        /\ pc' = "idle"
                        /\ abciReq' = NilReq
                        /\ inflight' = inflight \ {"VerifyBeaconBlock"}
                        /\ UNCHANGED issued
                   ELSE /\ inflight' = (inflight \ {"VerifyBeaconBlock"})
                                          \cup {"VerifySidecars"}
                        /\ issued' = Append(issued, "VerifySidecars")
                        /\ pc' = "pp_sc"
                        /\ ret' = NoRet
                        /\ UNCHANGED abciReq

\* ProcessProposal waiting again whenever the delivery of VerifySidecars failed.
ProcessProposal_SidecarsResp_Retry ==
    /\ pc = "pp_sc"
    /\ UNCHANGED bvars
    /\ \E out \in DispatcherOutcomes("VerifySidecars", {blobs}) :
        /\ sidecarsResp' = out.env
        /\ reqErr' = out.err
        /\ UNCHANGED <<h_req, blk, blobs, err, beaconBlockResp,
                       valUpdatesResp, beaconBlkBundleResp, bbBz, issued,
                       verified, handed, served, stale>>
        /\ IF ~out.env.present
           THEN /\ pc' = "pp_sc"
                /\ ret' = NoRet
                /\ UNCHANGED <<inflight, abciReq>>
           ELSE /\ inflight' = inflight \ {"VerifySidecars"}
                /\ pc' = "idle"
                /\ abciReq' = NilReq
                /\ ret' = createProcessProposalResponse(out.env.err)

\* Lines 175-185: the reply to VerifySidecars arrives.
ProcessProposal_SidecarsResp ==
    /\ pc = "pp_sc"
    /\ UNCHANGED bvars
    /\ \E out \in DispatcherOutcomes("VerifySidecars", {blobs}) :
        /\ sidecarsResp' = out.env
        /\ reqErr' = out.err
        /\ inflight' = inflight \ {"VerifySidecars"}
        /\ pc' = "idle"
        /\ abciReq' = NilReq
        /\ UNCHANGED <<h_req, blk, blobs, err, beaconBlockResp,
                       valUpdatesResp, beaconBlkBundleResp, bbBz, issued,
                       verified, handed, served, stale>>
        /\ ret' = IF ~out.env.present THEN Panic("ProcessProposal")
                  ELSE createProcessProposalResponse(out.env.err)

(* ---------------------------- FinalizeBlock ----------------------------- *)
\* PreBlock storing the message before looking at its type.
PreBlock_StoreAny(req) ==
    /\ pc = "idle"
    /\ UNCHANGED bvars
    /\ FreshEnvelopes
    /\ abciReq' = NilReq
    /\ blk' = 0
    /\ blobs' = 0
    /\ err' = NilErr
    /\ issued' = <<>>
    /\ handed' = "none"
    /\ pc' = "idle"
    /\ UNCHANGED <<inflight, verified, stale>>
    /\ h_req' = req
    /\ served' = FALSE
    /\ ret' = Return("PreBlock", "nil",
                     IF req.type # "FinalizeBlockRequest"
                     THEN ErrInvalidFinalizeBlockRequestType ELSE NilErr,
                     0, NilTx, NilTx)

\* Lines 208-220: type check, then the request is stored for EndBlock.
PreBlock(req) ==
    /\ pc = "idle"
    /\ UNCHANGED bvars
    /\ FreshEnvelopes
    /\ abciReq' = NilReq
    /\ blk' = 0
    /\ blobs' = 0
    /\ err' = NilErr
    /\ issued' = <<>>
    /\ handed' = "none"
    /\ pc' = "idle"
    /\ UNCHANGED <<inflight, verified, stale>>
    /\ IF req.type # "FinalizeBlockRequest"
       THEN /\ ret' = Return("PreBlock", "nil",
                             ErrInvalidFinalizeBlockRequestType, 0, NilTx, NilTx)
            /\ UNCHANGED <<h_req, served>>
       ELSE /\ h_req' = req
            /\ served' = FALSE
            /\ ret' = Return("PreBlock", "nil", NilErr, 0, NilTx, NilTx)

EndBlockParseFailure_Surface(e) ==
    Return("EndBlock", "nil", e, 0, NilTx, NilTx)

\* Lines 240-244: what EndBlock returns when the request cannot be parsed.
EndBlockParseFailure(e) ==
    Return("EndBlock", "nil", NilErr, 0, NilTx, NilTx)

\* Lines 232-251: parse the stored request, hand the blobs to ProcessSidecars.
EndBlock_Start ==
    /\ pc = "idle"
    /\ UNCHANGED bvars
    /\ FreshEnvelopes
    /\ abciReq' = NilReq
    /\ UNCHANGED <<h_req, verified>>
    /\ IF h_req.type = "nil"
       THEN \* h.req.Height on a nil request
            /\ ret' = Panic("EndBlock")
            /\ pc' = "idle"
            /\ blk' = 0
            /\ blobs' = 0
            /\ err' = NilErr
            /\ issued' = <<>>
            /\ handed' = "none"
            /\ UNCHANGED <<inflight, served, stale>>
       ELSE LET ex == ExtractBlobsAndBlockFromRequest(
                          h_req, BeaconBlockTxIndex, BlobSidecarsTxIndex) IN
            /\ stale' = served
            /\ served' = TRUE
            /\ blk' = ex.blk
            /\ blobs' = ex.blobs
            /\ err' = ex.err
            /\ IF ex.err # NilErr
               THEN /\ ret' = EndBlockParseFailure(ex.err)
                    /\ pc' = "idle"
                    /\ issued' = <<>>
                    /\ handed' = "none"
                    /\ UNCHANGED inflight
               ELSE /\ inflight' = inflight \cup {"ProcessSidecars"}
                    /\ issued' = <<"ProcessSidecars">>
                    /\ handed' = IF ex.blk \in verified THEN "verified"
                                 ELSE "unverified"
                    /\ pc' = "eb_sc"
                    /\ ret' = NoRet

SidecarsFailed_Never(env) == FALSE

\* Line 252: sidecarsResp.Error() != nil
SidecarsFailed(env) == env.err # NilErr

\* Lines 252-260: the reply to ProcessSidecars arrives.
EndBlock_SidecarsResp ==
    /\ pc = "eb_sc"
    /\ UNCHANGED bvars
    /\ \E out \in DispatcherOutcomes("ProcessSidecars", {blobs}) :
        /\ sidecarsResp' = out.env
        /\ reqErr' = out.err
        /\ UNCHANGED <<h_req, abciReq, blk, blobs, err, beaconBlockResp,
                       valUpdatesResp, beaconBlkBundleResp, bbBz, verified,
                       handed, served, stale>>
        /\ IF ~out.env.present
           THEN /\ ret' = Panic("EndBlock")
                /\ pc' = "idle"
                /\ inflight' = inflight \ {"ProcessSidecars"}
                /\ UNCHANGED issued
           ELSE IF SidecarsFailed(out.env)
           THEN /\ ret' = Return("EndBlock", "nil", out.env.err, 0, NilTx, NilTx)
                /\ pc' = "idle"
                /\ inflight' = inflight \ {"ProcessSidecars"}
                /\ UNCHANGED issued
           ELSE /\ inflight' = (inflight \ {"ProcessSidecars"})
                                  \cup {"FinalizeBeaconBlock"}
                /\ issued' = Append(issued, "FinalizeBeaconBlock")
                /\ pc' = "eb_fin"
                /\ ret' = NoRet

EndBlockResult_DropErr(env) ==
    Return("EndBlock", "nil", NilErr, env.data, NilTx, NilTx)

\* Line 262: return valUpdatesResp.Data(), valUpdatesResp.Error()
EndBlockResult(env) ==
    Return("EndBlock", "nil", env.err, env.data, NilTx, NilTx)

EndBlock_FinalizeResp ==
    /\ pc = "eb_fin"
    /\ UNCHANGED bvars
    /\ \E out \in DispatcherOutcomes("FinalizeBeaconBlock", 1..MaxUpdates) :
        /\ valUpdatesResp' = out.env
        /\ reqErr' = out.err
        /\ inflight' = inflight \ {"FinalizeBeaconBlock"}
        /\ pc' = "idle"
        /\ UNCHANGED <<h_req, abciReq, blk, blobs, err, beaconBlockResp,
                       sidecarsResp, beaconBlkBundleResp, bbBz, issued,
                       verified, handed, served, stale>>
        /\ ret' = IF ~out.env.present THEN Panic("EndBlock")
                  ELSE EndBlockResult(out.env)

(* --------------------------- PrepareProposal ---------------------------- *)
PrepareProposal_Start ==
    /\ pc = "idle"
    /\ UNCHANGED bvars
    /\ FreshEnvelopes
    /\ abciReq' = NilReq
    /\ blk' = 0
    /\ blobs' = 0
    /\ err' = NilErr
    /\ handed' = "none"
    /\ inflight' = inflight \cup {"BuildBeaconBlockAndSidecars"}
    /\ issued' = <<"BuildBeaconBlockAndSidecars">>
    /\ pc' = "prep_build"
    /\ ret' = NoRet
    /\ UNCHANGED <<h_req, verified, served, stale>>

\* Lines 89-98 and 110-112: the Request returns; its error is checked.
PrepareProposal_BuildResp ==
    /\ pc = "prep_build"
    /\ UNCHANGED bvars
    /\ \E out \in DispatcherOutcomes("BuildBeaconBlockAndSidecars", Blocks) :
        /\ beaconBlkBundleResp' = out.env
        /\ reqErr' = out.err
        /\ inflight' = inflight \ {"BuildBeaconBlockAndSidecars"}
        /\ UNCHANGED <<h_req, abciReq, blk, blobs, err, beaconBlockResp,
                       sidecarsResp, valUpdatesResp, bbBz, verified,
                       handed, served, stale>>
        /\ IF out.err # NilErr
           THEN /\ ret' = Return("PrepareProposal", "nil", out.err, 0, NilTx, NilTx)
                /\ pc' = "idle"
                /\ UNCHANGED issued
           ELSE IF out.env.err # NilErr
           THEN /\ ret' = Return("PrepareProposal", "nil", out.env.err, 0,
                                 NilTx, NilTx)
                /\ pc' = "idle"
                /\ UNCHANGED issued
           ELSE /\ pc' = "prep_pubBlk"
                /\ issued' = Append(issued, "PublishBeaconBlock")
                /\ ret' = NoRet

\* The sidecars published whatever the block's Publish returned.
PrepareProposal_PublishBlock_Regardless ==
    /\ pc = "prep_pubBlk"
    /\ UNCHANGED bvars
    /\ \E p \in PublishOutcomes(MarshalBlock(beaconBlkBundleResp.data)) :
        /\ err' = p.err
        /\ UNCHANGED <<reqErr, h_req, abciReq, blk, blobs, beaconBlockResp,
                       sidecarsResp, valUpdatesResp, beaconBlkBundleResp,
                       inflight, verified, handed, served, stale>>
        /\ bbBz' = p.bz
        /\ pc' = "prep_pubSc"
        /\ issued' = Append(issued, "PublishSidecars")
        /\ ret' = NoRet

\* Lines 114-117: the block gossiper's Publish returns.
PrepareProposal_PublishBlock ==
    /\ pc = "prep_pubBlk"
    /\ UNCHANGED bvars
    /\ \E p \in PublishOutcomes(MarshalBlock(beaconBlkBundleResp.data)) :
        /\ err' = p.err
        /\ UNCHANGED <<reqErr, h_req, abciReq, blk, blobs, beaconBlockResp,
                       sidecarsResp, valUpdatesResp, beaconBlkBundleResp,
                       inflight, verified, handed, served, stale>>
        /\ IF p.err # NilErr
           THEN /\ ret' = Return("PrepareProposal", "nil", p.err, 0, NilTx, NilTx)
                /\ pc' = "idle"
                /\ UNCHANGED <<bbBz, issued>>
           ELSE /\ bbBz' = p.bz
                /\ pc' = "prep_pubSc"
                /\ issued' = Append(issued, "PublishSidecars")
                /\ ret' = NoRet

SidecarPublishResult_Partial(bb, p) ==
    IF p.err # NilErr
    THEN Return("PrepareProposal", "nil", p.err, 0, bb, NilTx)
    ELSE Return("PrepareProposal", "nil", NilErr, 0, bb, p.bz)

\* The sidecar bytes returned first, the block bytes second.
SidecarPublishResult_Swapped(bb, p) ==
    IF p.err # NilErr
    THEN Return("PrepareProposal", "nil", p.err, 0, NilTx, NilTx)
    ELSE Return("PrepareProposal", "nil", NilErr, 0, p.bz, bb)

\* Lines 119-123: what is returned once the blob gossiper's Publish returned.
SidecarPublishResult(bb, p) ==
    IF p.err # NilErr
    THEN Return("PrepareProposal", "nil", p.err, 0, NilTx, NilTx)
    ELSE Return("PrepareProposal", "nil", NilErr, 0, bb, p.bz)

PrepareProposal_PublishSidecars ==
    /\ pc = "prep_pubSc"
    /\ UNCHANGED bvars
    /\ \E p \in PublishOutcomes(MarshalSidecars(beaconBlkBundleResp.data)) :
        /\ ret' = SidecarPublishResult(bbBz, p)
        /\ err' = p.err
        /\ pc' = "idle"
        /\ UNCHANGED <<reqErr, h_req, abciReq, blk, blobs, beaconBlockResp,
                       sidecarsResp, valUpdatesResp, beaconBlkBundleResp,
                       bbBz, inflight, issued, verified, handed, served, stale>>

(* -------------------------------- system -------------------------------- *)
Next ==
    \/ \E bz \in GenesisBytes : InitGenesis_Start(bz)
    \/ InitGenesis_Resp
    \/ \E req \in Requests : ProcessProposal_Start(req)
    \/ ProcessProposal_BlockResp
    \/ ProcessProposal_SidecarsResp
    \/ \E req \in Requests : PreBlock(req)
    \/ EndBlock_Start
    \/ EndBlock_SidecarsResp
    \/ EndBlock_FinalizeResp
    \/ PrepareProposal_Start
    \/ PrepareProposal_BuildResp
    \/ PrepareProposal_PublishBlock
    \/ PrepareProposal_PublishSidecars

Spec == Init /\ [][Next]_vars

\* Delivery blocks until the responder returns: a dispatcher request that
\* ProcessProposal waits on is eventually answered.
FairSpec ==
    /\ Init /\ [][Next]_vars
    /\ WF_vars(ProcessProposal_BlockResp)
    /\ WF_vars(ProcessProposal_SidecarsResp)

(* ---------------- chain services: finalization and building ------------- *)

\* The block of slot s proposed on top of the chain head of state s0.
ProposedBlock(s0, s) ==
    [NoBlock EXCEPT !.slot = s, !.parentRoot = HeaderRoot(s0.latestBlockHeader),
                    !.forkVersion = ActiveForkVersionForSlot(s),
                    !.graffiti = EmptyGraffiti]

\* The key of the payload build a forkchoice update asked for, if any.
RequestedKey(calls, old) ==
    IF calls # <<>> /\ calls[1].call = "RequestPayloadAsync"
    THEN PayloadKey(calls[1].slot, calls[1].parentRoot, calls[1].head)
    ELSE old

\* The head of the forkchoice update without attributes in calls, if any.
NotifiedHead(calls, old) ==
    IF calls # <<>> /\ calls[1].call = "NotifyForkchoiceUpdate"
    THEN calls[1].head
    ELSE old

\* The chain finalizes the next block, gap slots after the head: the state
\* is advanced to the block's slot, the block is processed, and the
\* post-block forkchoice update is sent on the post-state.
FinalizeBlock(gap, lphErr, psErr) ==
    /\ st.slot + gap <= MaxSlot
    /\ LET b == ProposedBlock(st, st.slot + gap)
           post == ProcessBlock(ProcessSlots(st, b.slot), b)
           r == sendPostBlockFCU(post, b, cfg.optimistic, cfg.enabled, lphErr, psErr)
       IN  /\ st' = r.st
           /\ engine' = r.calls
           \* pre: the state sendPostBlockFCU is called on
           /\ fcuIn' = [done |-> TRUE, pre |-> post, lphErr |-> lphErr,
                       psErr |-> psErr]
           /\ prevHead' = NotifiedHead(engine, prevHead)
           /\ requested' = RequestedKey(r.calls, requested)
           /\ bst' = NilState
           /\ bres' = NoRes
    /\ UNCHANGED <<cfg, mvars, app>>

\* The builder takes a copy of the head state and prepares it for a block
\* of requestedSlot.
Builder_PrepareState(requestedSlot, slotErr, psErr) ==
    /\ LET r == prepareStateForBuilding(Copy(st), requestedSlot, slotErr, psErr)
       IN  /\ bst' = r.st
           /\ bres' = [Result("prepareStateForBuilding") EXCEPT
                          !.err = r.err, !.slot = requestedSlot,
                          !.entrySlot = st.slot, !.processed = r.processed,
                          !.readErr = slotErr, !.callErr = psErr]
    /\ UNCHANGED <<cfg, st, engine, fcuIn, prevHead, requested, mvars, app>>

\* The builder creates the empty block of the slot it prepared the state for.
Builder_GetEmptyBeaconBlock(rootErr, body, emptyErr) ==
    /\ bres.op = "prepareStateForBuilding"
    /\ bres.err = NilErr
    /\ LET r == GetEmptyBeaconBlock(bst, bres.slot, cfg.signer, cfg.moniker,
                                    rootErr, body, emptyErr)
       IN  bres' = [bres EXCEPT !.op = "GetEmptyBeaconBlock", !.err = r.err,
                                !.blk = r.blk, !.readErr = rootErr,
                                !.callErr = emptyErr, !.body = body]
    /\ UNCHANGED <<cfg, st, engine, fcuIn, prevHead, requested, bst, mvars, app>>

\* The builder fetches the execution payload of the block it created.
Builder_RetrievePayload(lphErr, out) ==
    /\ bres.op = "GetEmptyBeaconBlock"
    /\ bres.err = NilErr
    /\ LET r == RetrievePayload(bst, bres.blk, lphErr, out)
       IN  bres' = [bres EXCEPT !.op = "RetrievePayload", !.err = r.err,
                                !.env = r.env, !.called = r.called,
                                !.key = r.key, !.readErr = lphErr,
                                !.callErr = out.err, !.callEnv = out.env]
    /\ UNCHANGED <<cfg, st, engine, fcuIn, prevHead, requested, bst, mvars, app>>

MaxGap == 2

ServicesNext ==
    \/ \E gap \in 1..MaxGap, lphErr \in StateReadErrors,
          psErr \in {NilErr, ErrProcessSlot} : FinalizeBlock(gap, lphErr, psErr)
    \/ \E requestedSlot \in Slots, slotErr \in StateReadErrors,
          psErr \in {NilErr, ErrProcessSlot} :
            Builder_PrepareState(requestedSlot, slotErr, psErr)
    \/ \E rootErr \in StateReadErrors, body \in BodyGraffiti,
          emptyErr \in {NilErr, ErrEmptyBlock} :
            Builder_GetEmptyBeaconBlock(rootErr, body, emptyErr)
    \/ \E lphErr \in StateReadErrors, out \in BuilderOutcomes :
            Builder_RetrievePayload(lphErr, out)

\* The chain services start at genesis under any node configuration.
GenesisInit ==
    /\ MiddlewareInit
    /\ \E c \in Configs : ServicesInit(c)

ServicesSpec == GenesisInit /\ [][ServicesNext]_vars

(* ------------------------------ properties ------------------------------ *)
Returned(phase) == pc = "idle" /\ ret.phase = phase /\ ret.outcome = "return"
Finished(phase) == pc = "idle" /\ ret.phase = phase
WasIssued(topic) == \E i \in 1..Len(issued) : issued[i] = topic

\* A verification responder answered the running/last call with a fatal error.
FatalResponded ==
    \/ beaconBlockResp.present /\ IsFatal(beaconBlockResp.err)
    \/ sidecarsResp.present /\ IsFatal(sidecarsResp.err)

\* C1: every ProcessProposal call on a well-typed request whose block and
\* sidecars decode ends with status REJECT if and only if VerifyBeaconBlock
\* or VerifySidecars responded with a fatal error, and with ACCEPT otherwise.
C1_StatusIffFatal ==
    (Finished("ProcessProposal")
        /\ ret.err # ErrInvalidProcessProposalRequestType
        /\ err = NilErr)
    => /\ (ret.status = "REJECT" <=> FatalResponded)
       /\ (~FatalResponded => ret.status = "ACCEPT")

C3_PersistBeforeTransition ==
    WasIssued("FinalizeBeaconBlock") =>
        /\ issued = <<"ProcessSidecars", "FinalizeBeaconBlock">>
        /\ sidecarsResp.present
        /\ sidecarsResp.err = NilErr
        /\ "ProcessSidecars" \notin inflight

C3_Witness ==
    pc = "eb_fin" /\ "FinalizeBeaconBlock" \in inflight /\ sidecarsResp.present

\* C4: EndBlock returns a non-nil error whenever ProcessSidecars or
\* FinalizeBeaconBlock responded with an error; after a ProcessSidecars error
\* FinalizeBeaconBlock is never requested and no validator updates come back.
C4_BothMustSucceed ==
    Returned("EndBlock") =>
        /\ (sidecarsResp.present /\ sidecarsResp.err # NilErr) =>
              /\ ret.err = sidecarsResp.err
              /\ ret.updates = 0
              /\ ~WasIssued("FinalizeBeaconBlock")
              /\ ~valUpdatesResp.present
        /\ (valUpdatesResp.present /\ valUpdatesResp.err # NilErr) =>
              ret.err = valUpdatesResp.err

C4_Witness ==
    /\ Returned("EndBlock")
    /\ valUpdatesResp.present
    /\ valUpdatesResp.err # NilErr
    /\ valUpdatesResp.data # 0

\* C5: a proposal whose block bytes or sidecar bytes are malformed (their
\* SSZ decoding fails) is answered with REJECT.
C5_MalformedRejected ==
    (Returned("ProcessProposal") /\ err = ErrInvalidSSZ)
    => ret.status = "REJECT"

\* C6 (as claimed): when the stored finalize request cannot be parsed,
\* EndBlock returns a non-nil error.
C6_ParseFailureSurfaces ==
    (Returned("EndBlock") /\ err # NilErr) => ret.err # NilErr

\* C6 (amended): when the stored finalize request cannot be parsed, EndBlock
\* returns no validator updates and a nil error, and issues no request.
C6_ParseFailureIsSilent ==
    (Returned("EndBlock") /\ err # NilErr) =>
        /\ ret.err = NilErr
        /\ ret.updates = 0
        /\ issued = <<>>
        /\ inflight = {}

C6_Witness ==
    Returned("EndBlock") /\ err = ErrInvalidSSZ /\ h_req.type = "FinalizeBlockRequest"

\* C7: sidecars are handed to ProcessSidecars only when their block has been
\* verified before.
C7_VerifiedBeforePersisted ==
    handed # "unverified"

\* C8: once EndBlock has returned no request remains stored, and EndBlock
\* never runs on a request that an earlier EndBlock already ran on.
C8_NoCrossBlockState ==
    /\ Returned("EndBlock") => h_req = NilReq
    /\ ~stale

\* C9: PrepareProposal returns either block bytes and sidecar bytes with a
\* nil error, or no bytes at all with a non-nil error.
C9_NoPartialProposal ==
    Finished("PrepareProposal") =>
        /\ ret.outcome = "return"
        /\ \/ ret.err = NilErr /\ ret.blkBz # NilTx /\ ret.scBz # NilTx
           \/ ret.err # NilErr /\ ret.blkBz = NilTx /\ ret.scBz = NilTx

C9_Witness ==
    /\ Returned("PrepareProposal")
    /\ bbBz # NilTx
    /\ ret.err = ErrGossip

\* C10: when a dispatcher Request made by ProcessProposal or EndBlock fails,
\* the phase returns that error to its caller.
C10_RequestErrorBubbles ==
    ((Finished("ProcessProposal") \/ Finished("EndBlock")) /\ reqErr # NilErr)
    => ret.outcome = "return" /\ ret.err = reqErr

\* C11: InitGenesis returns a non-nil error when the genesis JSON cannot be
\* decoded (and then issues no request), when the dispatcher request fails,
\* and when the ProcessGenesisData reply carries an error.
C11_InitGenesisFails ==
    Finished("InitGenesis") =>
        /\ ret.outcome = "return"
        /\ err # NilErr =>
              ret.err = err /\ issued = <<>> /\ ~valUpdatesResp.present
        /\ reqErr # NilErr => ret.err = reqErr
        /\ (valUpdatesResp.present /\ valUpdatesResp.err # NilErr) =>
              ret.err = valUpdatesResp.err
        /\ ret.err = NilErr =>
              /\ valUpdatesResp.present
              /\ ret.updates = valUpdatesResp.data

C11_Witness ==
    Returned("InitGenesis") /\ reqErr \in RequestErrors /\ ret.err = reqErr

(* ------------------- library functions, applied alone ------------------- *)

\* Largest tx index asked for.
MaxIndex == 2

\* The requests a decoder may be handed: none (nil), or one with txs.
DecoderRequests == {NilReq} \cup [type : {"FinalizeBlockRequest"}, txs : TxLists]

Applied(fn, req, bzIndex, out) ==
    [fn |-> fn, req |-> req, bzIndex |-> bzIndex, val |-> out.val, err |-> out.err]

Apply_ReadOnlyBeaconBlockFromABCIRequest(req, bzIndex) ==
    /\ app' = Applied("ReadOnlyBeaconBlockFromABCIRequest", req, bzIndex,
                      ReadOnlyBeaconBlockFromABCIRequest(req, bzIndex))
    /\ UNCHANGED <<mvars, cfg, st, engine, fcuIn, prevHead, requested, bst, bres>>

Apply_GetBlobSideCars(req, bzIndex) ==
    /\ app' = Applied("GetBlobSideCars", req, bzIndex,
                      GetBlobSideCars(req, bzIndex))
    /\ UNCHANGED <<mvars, cfg, st, engine, fcuIn, prevHead, requested, bst, bres>>

LibraryNext ==
    \/ \E req \in DecoderRequests, bzIndex \in 0..MaxIndex :
            Apply_ReadOnlyBeaconBlockFromABCIRequest(req, bzIndex)
    \/ \E req \in DecoderRequests, bzIndex \in 0..MaxIndex :
            Apply_GetBlobSideCars(req, bzIndex)

LibrarySpec == Init /\ [][LibraryNext]_vars

(* ------------------------ hex encoding: format.go ----------------------- *)
\* Longest text the hex functions are applied to.
MaxHexLen == 4

\* Texts are sequences of characters; a string and a byte slice of the same
\* characters are formatted alike.
HexChars == {"0", "1", "a", "x", "X"}
HexInputs == UNION {[1..n -> HexChars] : n \in 0..MaxHexLen}

ErrEmptyString == Err("ErrEmptyString")
ErrMissingPrefix == Err("ErrMissingPrefix")
ErrOddLength == Err("ErrOddLength")
ErrEmptyNumber == Err("ErrEmptyNumber")
ErrLeadingZero == Err("ErrLeadingZero")

\* Line 27.
has0xPrefix(s) == Len(s) >= 2 /\ s[1] = "0" /\ (s[2] = "x" \/ s[2] = "X")

\* ensure0xPrefix that knows the lower-case prefix only.
ensure0xPrefix_LowerOnly(s) ==
    IF Len(s) >= 2 /\ s[1] = "0" /\ s[2] = "x" THEN s ELSE <<"0", "x">> \o s

\* Lines 31-43.
ensure0xPrefix(s) == IF has0xPrefix(s) THEN s ELSE <<"0", "x">> \o s

\* Lines 47-52.
ensureStringInvariants(s) == ensure0xPrefix(IF Len(s) = 0 THEN <<"0">> ELSE s)

\* isValidHex: the empty text and a text without prefix are rejected.
isValidHex(s) ==
    IF Len(s) = 0 THEN ErrEmptyString
    ELSE IF ~has0xPrefix(s) THEN ErrMissingPrefix
    ELSE NilErr

\* A formatted text and an error; zero marks the zero value (a nil slice).
HexResult(v, z, e) == [val |-> v, zero |-> z, err |-> e]

\* input[2:], which panics on a text shorter than two characters.
Strip(input) ==
    IF Len(input) < 2 THEN HexResult(<<>>, TRUE, RuntimePanic)
    ELSE HexResult(SubSeq(input, 3, Len(input)), FALSE, NilErr)

\* formatAndValidateText without the check of the length.
formatAndValidateText_AnyLength(input) ==
    LET e == isValidHex(input)
    IN  IF e = NilErr THEN Strip(input)
        ELSE IF e = ErrEmptyString THEN HexResult(<<>>, TRUE, NilErr)
        ELSE HexResult(<<>>, TRUE, e)

\* Lines 60-73.
formatAndValidateText(input) ==
    LET e == isValidHex(input)
        rest == Strip(input)
    IN  IF e = NilErr
        THEN IF rest.err # NilErr THEN rest
             ELSE IF Len(rest.val) % 2 # 0
             THEN HexResult(<<>>, TRUE, ErrOddLength)
             ELSE rest
        ELSE IF e = ErrEmptyString THEN HexResult(<<>>, TRUE, NilErr)
        ELSE HexResult(<<>>, TRUE, e)

\* formatAndValidateNumber without the check for a leading zero.
formatAndValidateNumber_AnyDigits(input) ==
    LET e == isValidHex(input)
        rest == Strip(input)
    IN  IF e # NilErr THEN HexResult(<<>>, TRUE, e)
        ELSE IF rest.err # NilErr THEN rest
        ELSE IF Len(rest.val) = 0 THEN HexResult(<<>>, TRUE, ErrEmptyNumber)
        ELSE rest

\* Lines 76-91.
formatAndValidateNumber(input) ==
    LET e == isValidHex(input)
        rest == Strip(input)
    IN  IF e # NilErr THEN HexResult(<<>>, TRUE, e)
        ELSE IF rest.err # NilErr THEN rest
        ELSE IF Len(rest.val) = 0 THEN HexResult(<<>>, TRUE, ErrEmptyNumber)
        ELSE IF Len(rest.val) > 1 /\ rest.val[1] = "0"
        THEN HexResult(<<>>, TRUE, ErrLeadingZero)
        ELSE rest

\* A text, and a function of format.go applied to it.
HexText(s) == [fn |-> "none", input |-> s]
HexApplied(fn, s, out) == [fn |-> fn, input |-> s, out |-> out]

Apply_ensure0xPrefix ==
    /\ app' = HexApplied("ensure0xPrefix", app.input,
                         HexResult(ensure0xPrefix(app.input), FALSE, NilErr))
    /\ UNCHANGED <<mvars, cfg, st, engine, fcuIn, prevHead, requested, bst, bres>>

Apply_ensureStringInvariants ==
    /\ app' = HexApplied("ensureStringInvariants", app.input,
                         HexResult(ensureStringInvariants(app.input), FALSE, NilErr))
    /\ UNCHANGED <<mvars, cfg, st, engine, fcuIn, prevHead, requested, bst, bres>>

Apply_formatAndValidateText ==
    /\ app' = HexApplied("formatAndValidateText", app.input,
                         formatAndValidateText(app.input))
    /\ UNCHANGED <<mvars, cfg, st, engine, fcuIn, prevHead, requested, bst, bres>>

Apply_formatAndValidateNumber ==
    /\ app' = HexApplied("formatAndValidateNumber", app.input,
                         formatAndValidateNumber(app.input))
    /\ UNCHANGED <<mvars, cfg, st, engine, fcuIn, prevHead, requested, bst, bres>>

HexNext ==
    \/ Apply_ensure0xPrefix
    \/ Apply_ensureStringInvariants
    \/ Apply_formatAndValidateText
    \/ Apply_formatAndValidateNumber

\* Any text of the bounded alphabet, with the rest of the node at rest.
HexInit ==
    /\ MiddlewareInit
    /\ cfg = [optimistic |-> FALSE, enabled |-> TRUE, signer |-> "pkA",
              moniker |-> Moniker(1)]
    /\ st = GenesisState
    /\ engine = <<>>
    /\ fcuIn = NoFcuIn
    /\ prevHead = ZeroHash
    /\ requested = NoKey
    /\ bst = NilState
    /\ bres = NoRes
    /\ app \in {HexText(s) : s \in HexInputs}

HexSpec == HexInit /\ [][HexNext]_vars

(* --------------------- properties of the chain services ----------------- *)
Prepared == bres.op = "prepareStateForBuilding"

Built == bres.op = "GetEmptyBeaconBlock" /\ bres.err = NilErr

\* C13: a block built by GetEmptyBeaconBlock for slot s on a state that slot
\* processing has advanced to slot s has as parent root the root of the
\* state's latest block header, the previously finalized block.
C13_ParentRootIsHeadRoot ==
    (Built /\ bst.slot = bres.blk.slot /\ bres.processed = 1) =>
        bres.blk.parentRoot = HeaderRoot(bst.latestBlockHeader)

Retrieved == bres.op = "RetrievePayload"

\* C14: the payload build requested after finalizing the head block, of
\* slot s, is filed under the key RetrievePayload looks up for the block of
\* slot s+1 built on that block's post-state.
C14_RequestedIsRetrieved ==
    (/\ Retrieved
     /\ bres.called
     /\ engine # <<>>
     /\ engine[1].call = "RequestPayloadAsync"
     /\ bres.blk.slot = AddSlot(st.slot, 1)) =>
        bres.key = requested

WithAttributes == ~cfg.optimistic /\ cfg.enabled
CallsOf(name) == {i \in 1..Len(engine) : engine[i].call = name}

\* C15: a sendPostBlockFCU call makes at most one engine call: with optimistic
\* builds off and the local builder enabled it is a RequestPayloadAsync for
\* the slot after the block's, otherwise a NotifyForkchoiceUpdate; never
\* both, and none when the latest payload header cannot be read.
C15_AtMostOneEngineCall ==
    fcuIn.done =>
        /\ Len(engine) <= 1
        /\ fcuIn.lphErr # NilErr => engine = <<>>
        /\ \A i \in CallsOf("RequestPayloadAsync") :
               WithAttributes /\ engine[i].slot = AddSlot(fcuIn.pre.slot, 1)
        /\ \A i \in CallsOf("NotifyForkchoiceUpdate") : ~WithAttributes
        /\ (fcuIn.lphErr = NilErr /\ ~WithAttributes) =>
               CallsOf("NotifyForkchoiceUpdate") # {}
        /\ (fcuIn.lphErr = NilErr /\ WithAttributes /\ fcuIn.psErr = NilErr) =>
               CallsOf("RequestPayloadAsync") # {}

C15_Witness ==
    /\ fcuIn.done
    /\ WithAttributes
    /\ CallsOf("RequestPayloadAsync") = {1}
    /\ engine[1].slot = 3

\* C16: a forkchoice update without attributes names the block hash of the
\* state's latest payload header as head and that header's parent hash as
\* safe and as finalized block, for the fork version of the block's slot.
C16_NoAttrsFields ==
    \A i \in CallsOf("NotifyForkchoiceUpdate") :
        /\ engine[i].head = fcuIn.pre.lph.blockHash
        /\ engine[i].safe = fcuIn.pre.lph.parentHash
        /\ engine[i].finalized = fcuIn.pre.lph.parentHash
        /\ engine[i].forkVersion = ActiveForkVersionForSlot(fcuIn.pre.latestBlockHeader)

C16_Witness ==
    /\ CallsOf("NotifyForkchoiceUpdate") = {1}
    /\ engine[1].head = PayloadHash(ForkSlot)
    /\ engine[1].safe = PayloadHash(ForkSlot - 1)
    /\ engine[1].forkVersion = 2

\* C17: the head of a forkchoice update without attributes is the block hash
\* of the latest payload header of the state after the finalized block, and
\* it is not a payload older than the head of the update sent before it.
C17_HeadNeverRegresses ==
    \A i \in CallsOf("NotifyForkchoiceUpdate") :
        /\ engine[i].head = st.lph.blockHash
        /\ engine[i].head = PayloadHash(st.latestBlockHeader)
        /\ engine[i].head >= prevHead

C17_Witness ==
    /\ CallsOf("NotifyForkchoiceUpdate") = {1}
    /\ prevHead = PayloadHash(1)
    /\ engine[1].head = PayloadHash(3)

\* C18: sendNextFCUWithAttributes leaves the state it was called on as it
\* was, whether the slot processing on the copy fails or the build is
\* requested on the advanced copy.
C18_CallerStateUnchanged ==
    (fcuIn.done /\ fcuIn.lphErr = NilErr /\ WithAttributes) => st = fcuIn.pre

C18_Witness ==
    /\ fcuIn.done
    /\ CallsOf("RequestPayloadAsync") = {1}
    /\ engine[1].stSlot = AddSlot(st.slot, 1)
    /\ st = fcuIn.pre
    /\ st.slot = 2

\* C19: RetrievePayload returns an envelope or an error, never neither: the
\* builder's error as it is, ErrNilPayload for a nil envelope without error,
\* and the read error, without calling the builder, when the latest payload
\* header cannot be read.
C19_EnvelopeOrError ==
    Retrieved =>
        /\ ~(bres.env = 0 /\ bres.err = NilErr)
        /\ bres.called <=> bres.readErr = NilErr
        /\ bres.readErr # NilErr => bres.err = bres.readErr /\ bres.env = 0
        /\ (bres.called /\ bres.callErr # NilErr) =>
               bres.err = bres.callErr /\ bres.env = 0
        /\ (bres.called /\ bres.callErr = NilErr /\ bres.callEnv = 0) =>
               bres.err = ErrNilPayload /\ bres.env = 0
        /\ (bres.called /\ bres.callErr = NilErr /\ bres.callEnv # 0) =>
               bres.err = NilErr /\ bres.env = bres.callEnv

C19_Witness ==
    /\ Retrieved
    /\ bres.called
    /\ bres.callErr = NilErr
    /\ bres.callEnv = 0
    /\ bres.err = ErrNilPayload

IsValidator(s, pk) == \E i \in 1..Len(s.validators) : s.validators[i] = pk

\* C20: GetEmptyBeaconBlock returns an error and no block when the signer's
\* public key is not in the state's validator set or the parent block root
\* cannot be read; a block it returns has the requested slot, the signer's
\* validator index and the block root read from the state.
C20_NoBlockWithoutLookups ==
    bres.op = "GetEmptyBeaconBlock" =>
        /\ ~IsValidator(bst, cfg.signer) => bres.err # NilErr
        /\ bres.readErr # NilErr => bres.err # NilErr
        /\ bres.err # NilErr => bres.blk = NoBlock
        /\ bres.err = NilErr =>
               /\ IsValidator(bst, cfg.signer)
               /\ bres.readErr = NilErr
               /\ bres.blk.slot = bres.slot
               /\ bst.validators[bres.blk.proposerIndex + 1] = cfg.signer
               /\ bres.blk.parentRoot =
                      bst.blockRoots[bres.slot % SlotsPerHistoricalRoot]

C20_Witness ==
    /\ bres.op = "GetEmptyBeaconBlock"
    /\ ~IsValidator(bst, cfg.signer)
    /\ bres.readErr = NilErr
    /\ bres.err # NilErr
    /\ bres.blk = NoBlock

\* C21: a block whose body comes with an empty graffiti gets the moniker's
\* bytes, cut after graffitiSize bytes and zero-padded to graffitiSize; a
\* graffiti already set is left as it is.
C21_GraffitiFromMoniker ==
    Built =>
        /\ IsGraffitiEmpty(bres.body) =>
               \A i \in 1..graffitiSize :
                   bres.blk.graffiti[i] =
                       IF i <= Len(cfg.moniker) THEN cfg.moniker[i] ELSE 0
        /\ ~IsGraffitiEmpty(bres.body) => bres.blk.graffiti = bres.body

C21_Witness ==
    /\ Built
    /\ IsGraffitiEmpty(bres.body)
    /\ Len(cfg.moniker) > graffitiSize
    /\ bres.blk.graffiti[graffitiSize] = cfg.moniker[graffitiSize]

(* ------------------ further properties of the middleware ---------------- *)

\* What the last call passed to h.logger: InitGenesis logs the decoding
\* error; no other phase logs.
LoggedErrors ==
    IF ret.phase = "InitGenesis" /\ err # NilErr THEN {err} ELSE {}

\* The non-fatal errors the last ProcessProposal call met: a decoding error,
\* which it wraps as non-fatal, or a non-fatal verification reply.
NonFatalMet ==
    {WrapNonFatal(e) : e \in {err} \ {NilErr}}
        \cup {e \in {beaconBlockResp.err, sidecarsResp.err} :
                 e # NilErr /\ ~IsFatal(e)}

\* C22: a non-fatal error under which ProcessProposal accepts is recorded:
\* it is logged or returned with the response.
C22_NonFatalRecorded ==
    (Returned("ProcessProposal") /\ ret.status = "ACCEPT") =>
        \A e \in NonFatalMet : e \in LoggedErrors \/ ret.err = e

\* The FinalizeBlock request whose txs are the two byte strings a
\* PrepareProposal call returned, in the order it returned them.
ProposalRequest(r) ==
    [type |-> "FinalizeBlockRequest", txs |-> <<r.blkBz, r.scBz>>]

\* C23: PrepareProposal returns the block bytes first and the sidecar bytes
\* second, EndBlock takes the block from tx slot BeaconBlockTxIndex and the
\* sidecars from tx slot BlobSidecarsTxIndex, so the proposal of a
\* PrepareProposal call parses back into the block and sidecars built.
C23_TxLayoutRoundTrip ==
    /\ (Returned("PrepareProposal") /\ ret.err = NilErr) =>
           LET ex == ExtractBlobsAndBlockFromRequest(
                         ProposalRequest(ret), BeaconBlockTxIndex,
                         BlobSidecarsTxIndex)
           IN  /\ ex.err = NilErr
               /\ ex.blk = beaconBlkBundleResp.data
               /\ ex.blobs = beaconBlkBundleResp.data
    /\ pc \in {"eb_sc", "eb_fin"} =>
           /\ TxAt(h_req.txs, BeaconBlockTxIndex) = MarshalBlock(blk)
           /\ TxAt(h_req.txs, BlobSidecarsTxIndex) = MarshalSidecars(blobs)

C23_Witness ==
    /\ Returned("PrepareProposal")
    /\ ret.err = NilErr
    /\ ret.blkBz = MarshalBlock(MaxBlock)
    /\ ret.scBz = MarshalSidecars(MaxBlock)

Decoded ==
    app.fn \in {"ReadOnlyBeaconBlockFromABCIRequest", "GetBlobSideCars"}

\* C24: ReadOnlyBeaconBlockFromABCIRequest and GetBlobSideCars answer with
\* the error of the first check that fails, in the order nil request, no
\* txs, index not below the number of txs, nil entry; they read and decode
\* txs[index] only below that number, so never out of range.
C24_DecoderCheckOrder ==
    Decoded =>
        LET n == Len(app.req.txs) IN
        /\ app.req = NilReq => app.err = ErrNilABCIRequest
        /\ (app.req # NilReq /\ n = 0) => app.err = ErrNoBeaconBlockInRequest
        /\ (app.req # NilReq /\ n > 0 /\ app.bzIndex >= n) =>
               app.err = ErrBzIndexOutOfBounds
        /\ (app.req # NilReq /\ app.bzIndex < n
                /\ app.req.txs[app.bzIndex + 1] = NilTx) =>
               app.err = ErrNilBeaconBlockInRequest
        /\ (app.req # NilReq /\ app.bzIndex < n
                /\ app.req.txs[app.bzIndex + 1] # NilTx) =>
               app.err \in {NilErr, ErrInvalidSSZ}
        /\ app.err = NilErr =>
               /\ app.bzIndex < n
               /\ app.req.txs[app.bzIndex + 1] \in
                      {MarshalBlock(app.val), MarshalSidecars(app.val)}
        /\ app.err # RuntimePanic

C24_Witness ==
    /\ app.fn = "ReadOnlyBeaconBlockFromABCIRequest"
    /\ Len(app.req.txs) = 1
    /\ app.bzIndex = MaxIndex
    /\ app.err = ErrBzIndexOutOfBounds

\* The reply ProcessProposal looked at last.
LastVerification == IF sidecarsResp.present THEN sidecarsResp ELSE beaconBlockResp

\* C25: when ProcessProposal returns a response, the returned error is
\* non-nil exactly with status REJECT, and then it is the fatal error of the
\* verification reply, unchanged; with ACCEPT it is nil.
C25_ErrorIffReject ==
    (Returned("ProcessProposal") /\ ret.status \in {"ACCEPT", "REJECT"}) =>
        /\ ret.err # NilErr <=> ret.status = "REJECT"
        /\ ret.status = "REJECT" =>
               /\ LastVerification.present
               /\ ret.err = LastVerification.err
               /\ IsFatal(ret.err)

C25_Witness ==
    /\ Returned("ProcessProposal")
    /\ ret.status = "REJECT"
    /\ ret.err = Err("ErrRandaoInvalid")
    /\ beaconBlockResp.err = Err("ErrRandaoInvalid")

\* C26: prepareStateForBuilding reports "requested slot is in the past"
\* exactly when the requested slot is below the state's slot, and "requested
\* slot is too far ahead" exactly when it is above the state's slot plus one.
C26_SlotMessages ==
    (Prepared /\ bres.readErr = NilErr) =>
        /\ bres.err = Err("requested slot is in the past") <=>
               bres.slot < bres.entrySlot
        /\ bres.err = Err("requested slot is too far ahead") <=>
               bres.slot > bres.entrySlot + 1

\* C27: sendNextFCUWithAttributes for the block of slot s advances a copy of
\* the state to slot s+1 first; if that fails it requests no payload build,
\* else it makes exactly one RequestPayloadAsync call, on the advanced copy,
\* for slot s+1 with the block's root as parent root, lph.block_hash as head
\* and lph.parent_hash as finalized hash.
C27_AdvanceThenRequest ==
    (fcuIn.done /\ fcuIn.lphErr = NilErr /\ WithAttributes) =>
        LET s == fcuIn.pre.latestBlockHeader IN
        /\ fcuIn.psErr # NilErr => engine = <<>>
        /\ fcuIn.psErr = NilErr =>
               /\ Len(engine) = 1
               /\ engine[1].call = "RequestPayloadAsync"
               /\ engine[1].stSlot = AddSlot(s, 1)
               /\ engine[1].slot = AddSlot(s, 1)
               /\ engine[1].parentRoot = HeaderRoot(s)
               /\ engine[1].head = fcuIn.pre.lph.blockHash
               /\ engine[1].finalized = fcuIn.pre.lph.parentHash

C27_Witness ==
    /\ fcuIn.done
    /\ WithAttributes
    /\ fcuIn.psErr = NilErr
    /\ Len(engine) = 1
    /\ engine[1].stSlot = 2
    /\ engine[1].parentRoot = HeaderRoot(1)

CallsMade(name) == Cardinality({i \in 1..Len(issued) : issued[i] = name})

\* C29: PrepareProposal calls the block gossiper's Publish only when the
\* build answered without error, the blob gossiper's Publish only after the
\* block's Publish returned without error, and each at most once.
C29_GossipOrder ==
    /\ WasIssued("PublishBeaconBlock") =>
           /\ reqErr = NilErr
           /\ beaconBlkBundleResp.present
           /\ beaconBlkBundleResp.err = NilErr
    /\ WasIssued("PublishSidecars") =>
           /\ bbBz = MarshalBlock(beaconBlkBundleResp.data)
           /\ issued = <<"BuildBeaconBlockAndSidecars", "PublishBeaconBlock",
                         "PublishSidecars">>
    /\ CallsMade("PublishBeaconBlock") <= 1
    /\ CallsMade("PublishSidecars") <= 1
    /\ (Returned("PrepareProposal") /\ beaconBlkBundleResp.present
            /\ beaconBlkBundleResp.err # NilErr) =>
           issued = <<"BuildBeaconBlockAndSidecars">>

C29_Witness ==
    /\ Returned("PrepareProposal")
    /\ ret.err = NilErr
    /\ issued = <<"BuildBeaconBlockAndSidecars", "PublishBeaconBlock",
                  "PublishSidecars">>

\* Messages that are not a ProcessProposalRequest: another message, and
\* FinalizeBlock requests with no, an undecodable and a well-formed block.
WrongTyped ==
    {[type |-> "Other", txs |-> <<>>],
     [type |-> "FinalizeBlockRequest", txs |-> <<>>],
     [type |-> "FinalizeBlockRequest", txs |-> <<Junk>>],
     [type |-> "FinalizeBlockRequest",
      txs |-> <<MarshalBlock(1), MarshalSidecars(1)>>]}

\* C30: ProcessProposal on a message that is not a ProcessProposalRequest
\* returns a nil response with ErrInvalidProcessProposalRequestType, and
\* decodes nothing and requests nothing.
C30_WrongTypeRefused ==
    [][\A req \in WrongTyped :
          ProcessProposal_Start(req) =>
              /\ ret' = Return("ProcessProposal", "nil",
                               ErrInvalidProcessProposalRequestType, 0,
                               NilTx, NilTx)
              /\ pc' = "idle"
              /\ issued' = <<>>
              /\ inflight' = inflight
              /\ blk' = 0 /\ blobs' = 0 /\ err' = NilErr
              /\ ~beaconBlockResp'.present /\ ~sidecarsResp'.present]_vars

C30_Witness ==
    /\ Returned("ProcessProposal")
    /\ ret.status = "nil"
    /\ ret.err = ErrInvalidProcessProposalRequestType
    /\ issued = <<>>

\* Messages handed to PreBlock: two that are not a FinalizeBlockRequest, and
\* FinalizeBlock requests with no, an undecodable and a well-formed block.
PreBlockInputs ==
    {[type |-> "Other", txs |-> <<>>],
     [type |-> "ProcessProposalRequest",
      txs |-> <<MarshalBlock(1), MarshalSidecars(1)>>],
     [type |-> "FinalizeBlockRequest", txs |-> <<>>],
     [type |-> "FinalizeBlockRequest", txs |-> <<Junk>>],
     [type |-> "FinalizeBlockRequest",
      txs |-> <<MarshalBlock(1), MarshalSidecars(1)>>]}

\* C31: PreBlock on a message that is not a FinalizeBlockRequest returns
\* ErrInvalidFinalizeBlockRequestType and keeps the stored request; on a
\* FinalizeBlockRequest it stores exactly that request and returns nil; it
\* never issues a dispatcher request.
C31_PreBlockFrame ==
    [][\A req \in PreBlockInputs :
          PreBlock(req) =>
              /\ pc' = "idle"
              /\ ret'.phase = "PreBlock" /\ ret'.outcome = "return"
              /\ issued' = <<>>
              /\ inflight' = inflight
              /\ IF req.type # "FinalizeBlockRequest"
                 THEN /\ ret'.err = ErrInvalidFinalizeBlockRequestType
                      /\ h_req' = h_req
                 ELSE /\ ret'.err = NilErr
                      /\ h_req' = req]_vars

C31_Witness ==
    /\ Returned("PreBlock")
    /\ ret.err = ErrInvalidFinalizeBlockRequestType
    /\ h_req.type = "FinalizeBlockRequest"
    /\ issued = <<>>

\* C32: one prepareStateForBuilding call makes at most one ProcessSlot call;
\* when requestedSlot - stateSlot is not 1 it makes none and the state it
\* was given is left as it was.
C32_ProcessSlotAtMostOnce ==
    Prepared =>
        /\ bres.processed <= 1
        /\ (bres.readErr # NilErr \/ SubSlot(bres.slot, bres.entrySlot) # 1) =>
               /\ bres.processed = 0
               /\ bst = Copy(st)

C32_Witness ==
    /\ Prepared
    /\ bres.readErr = NilErr
    /\ SubSlot(bres.slot, bres.entrySlot) > 1
    /\ bres.entrySlot > 0
    /\ bres.processed = 0
    /\ bst = Copy(st)

\* ProcessProposal is blocked in a dispatcher request.
ProcessProposalWaiting == pc \in {"pp_blk", "pp_sc"}

\* C33: a ProcessProposal call waits on nothing but the reply to one of its
\* at most two dispatcher requests, VerifyBeaconBlock then VerifySidecars, and
\* once its requests are answered it returns ACCEPT or REJECT; a call with a
\* message of another type returns the request-type error at once.
C33_ProcessProposalReturns ==
    /\ [](ProcessProposalWaiting =>
             /\ pc = "pp_blk" => /\ issued = <<"VerifyBeaconBlock">>
                                 /\ inflight = {"VerifyBeaconBlock"}
             /\ pc = "pp_sc" =>
                    /\ issued = <<"VerifyBeaconBlock", "VerifySidecars">>
                    /\ inflight = {"VerifySidecars"})
    /\ [](Finished("ProcessProposal") =>
             /\ Len(issued) <= 2
             /\ inflight = {}
             /\ reqErr = NilErr =>
                    /\ ret.outcome = "return"
                    /\ \/ ret.status \in {"ACCEPT", "REJECT"}
                       \/ /\ ret.err = ErrInvalidProcessProposalRequestType
                          /\ issued = <<>>)
    /\ ProcessProposalWaiting ~> Finished("ProcessProposal")

C33_Witness ==
    /\ Returned("ProcessProposal")
    /\ issued = <<"VerifyBeaconBlock", "VerifySidecars">>
    /\ reqErr = NilErr
    /\ ret.status = "ACCEPT"

(* ----------------------- properties of format.go ------------------------ *)
AppliedTo(fn) == app.fn = fn

\* C34: formatAndValidateNumber returns the validation error and an empty
\* result for a text isValidHex rejects; for an accepted text it strips the
\* two-character prefix and returns ErrEmptyNumber when nothing remains,
\* ErrLeadingZero when more than one digit remains and the first is "0", and
\* the remaining digits otherwise: "0x0" gives "0", "0x" and "0x00" fail.
C34_NumberFormat ==
    AppliedTo("formatAndValidateNumber") =>
        LET s == app.input
            r == app.out
            rest == SubSeq(s, 3, Len(s))
        IN  /\ isValidHex(s) # NilErr => r.err = isValidHex(s) /\ r.zero
            /\ isValidHex(s) = NilErr =>
                   /\ Len(s) >= 2
                   /\ Len(rest) = 0 => r.err = ErrEmptyNumber /\ r.zero
                   /\ (Len(rest) > 1 /\ rest[1] = "0") =>
                          r.err = ErrLeadingZero /\ r.zero
                   /\ (Len(rest) = 1 \/ (Len(rest) > 1 /\ rest[1] # "0")) =>
                          r.err = NilErr /\ r.val = rest /\ ~r.zero
            /\ s = <<"0", "x", "0">> => r.err = NilErr /\ r.val = <<"0">>
            /\ s = <<"0", "x">> => r.err # NilErr
            /\ s = <<"0", "x", "0", "0">> => r.err # NilErr

C34_Witness ==
    /\ AppliedTo("formatAndValidateNumber")
    /\ app.input = <<"0", "X", "0", "1">>
    /\ app.out.err = ErrLeadingZero

\* C35: ensure0xPrefix establishes the prefix, returns a text that starts
\* with 0x or 0X as it is, and applied to its own result changes nothing;
\* ensureStringInvariants gives "0x0" for the empty text and ensure0xPrefix
\* of the text for any other.
C35_PrefixIdempotent ==
    /\ AppliedTo("ensure0xPrefix") =>
           LET s == app.input
               r == app.out.val
           IN  /\ Len(r) >= 2 /\ r[1] = "0" /\ r[2] \in {"x", "X"}
               /\ (Len(s) >= 2 /\ s[1] = "0" /\ s[2] \in {"x", "X"}) => r = s
               /\ ~(Len(s) >= 2 /\ s[1] = "0" /\ s[2] \in {"x", "X"}) =>
                      r = <<"0", "x">> \o s
               /\ ensure0xPrefix(r) = r
    /\ AppliedTo("ensureStringInvariants") =>
           /\ app.input = <<>> => app.out.val = <<"0", "x", "0">>
           /\ app.input # <<>> => app.out.val = ensure0xPrefix(app.input)

C35_Witness ==
    /\ AppliedTo("ensure0xPrefix")
    /\ app.input = <<"0", "X", "a">>
    /\ app.out.val = <<"0", "X", "a">>

\* C36: formatAndValidateText returns the text without its two-character
\* prefix exactly when isValidHex accepts it and the remainder has even
\* length; for an accepted text with a remainder of odd length it returns
\* ErrOddLength, for the empty text nil and no error, and for any other
\* rejected text the validation error as it is.
C36_TextFormat ==
    AppliedTo("formatAndValidateText") =>
        LET s == app.input
            r == app.out
            rest == SubSeq(s, 3, Len(s))
            accepted == isValidHex(s) = NilErr
        IN  /\ (~r.zero /\ r.err = NilErr /\ Len(s) >= 2 /\ r.val = rest) <=>
                   (accepted /\ Len(rest) % 2 = 0)
            /\ (accepted /\ Len(rest) % 2 = 1) =>
                   r.zero /\ r.err = ErrOddLength
            /\ s = <<>> => r.zero /\ r.err = NilErr
            /\ (~accepted /\ s # <<>>) => r.zero /\ r.err = isValidHex(s)

C36_Witness ==
    /\ AppliedTo("formatAndValidateText")
    /\ app.input = <<"0", "x", "a">>
    /\ app.out.err = ErrOddLength
====
